---- MODULE Spec2Model ----
(***************************************************************************)
(* The client-side application shell of Rep-Link: the localStorage-backed  *)
(* Store, the Auth session manager, the mock API behind it, the login and  *)
(* signup forms, the header logout control, the route guards and the       *)
(* Router, in every browser tab that shares one localStorage.              *)
(*                                                                         *)
(* Strings whose content the code inspects (email addresses, passwords)    *)
(* are sequences of one-character strings, so that trimming, lower-casing  *)
(* and length tests are computed as the code computes them.  JavaScript    *)
(* objects are records; a property that an object does not carry is a      *)
(* field that the record does not have.  The value null of a user is the   *)
(* record NullUser, the value null of a string is the string "null".       *)
(***************************************************************************)
EXTENDS Integers, Sequences, FiniteSets, TLC

(* ------------------------------ bounds -------------------------------- *)

\* Number of browser tabs that share the localStorage.
NumTabs == 2

\* The clock runs from 0 to MaxTime ticks.
MaxTime == 1

Tabs == 1..NumTabs

\* At most this many subscriptions are made on the event bus, and on the
\* Map-based Store.
MaxSubs == 3

\* window.history holds at most this many entries.
MaxHistory == 2

\* The tab whose forms, guards and Router the user drives with every input.
MainTab == 1

(* ------------------------- program constants --------------------------- *)

\* mockLogin / mockRegister: expiresAt = Date.now() + 24 * 60 * 60 * 1000,
\* counted in clock ticks.
SessionTTL == 1

\* The login form refuses a password shorter than this.
MinPasswordLen == 3

(* ------------------------------ strings -------------------------------- *)

Null == "null"

IsSpace(c) == c = " "

\* String.prototype.toLowerCase, one character.
LowerChar(c) ==
    CASE c = "R" -> "r"
      [] c = "B" -> "b"
      [] c = "X" -> "x"
      [] OTHER   -> c

\* String.prototype.toLowerCase.
ToLowerCase(s) == [i \in 1..Len(s) |-> LowerChar(s[i])]

RECURSIVE TrimStart(_)
TrimStart(s) ==
    IF s # <<>> /\ IsSpace(Head(s)) THEN TrimStart(Tail(s)) ELSE s

RECURSIVE TrimEnd(_)
TrimEnd(s) ==
    IF s # <<>> /\ IsSpace(s[Len(s)])
    THEN TrimEnd(SubSeq(s, 1, Len(s) - 1))
    ELSE s

\* String.prototype.trim.
Trim(s) == TrimEnd(TrimStart(s))

(* --------------------------- users and the API ------------------------- *)

NullUser == [isNull |-> TRUE]

\* FALLBACK_USERS, with the prototype password api.getUsers attaches as __pw.
FallbackPassword == <<"p", "w", "1">>

FALLBACK_USERS ==
    << [id |-> "u-rep-001", name |-> "Demo Rep",
        email |-> <<"r">>, role |-> "rep"],
       [id |-> "u-biz-001", name |-> "Demo Business",
        email |-> <<"b">>, role |-> "business"] >>

FallbackWithPw ==
    [i \in 1..Len(FALLBACK_USERS) |->
        [id |-> FALLBACK_USERS[i].id, name |-> FALLBACK_USERS[i].name,
         email |-> FALLBACK_USERS[i].email, role |-> FALLBACK_USERS[i].role,
         __pw |-> FallbackPassword]]

\* The records of mock/users.json: id, name, email, role, password.
FixtureUsers ==
    << [id |-> "u-rep-001", name |-> "Demo Rep",
        email |-> <<"r">>, role |-> "rep",
        password |-> <<"p", "w", "1">>],
       [id |-> "u-biz-001", name |-> "Demo Business",
        email |-> <<"B">>, role |-> "business",
        password |-> <<"p", "w", "2">>] >>

\* api.getUsers: the fixture when one of the candidate paths can be fetched,
\* the fallback list otherwise.
UserCollections == {FixtureUsers, FallbackWithPw}

\* The destructuring as it would be if it left password in the rest.
SafeUserKeepsPassword(u) == [f \in DOMAIN u \ {"__pw"} |-> u[f]]

\* const { password, __pw, ...safe } = u: every property of the record but
\* those two.
SafeUser(u) == [f \in DOMAIN u \ {"password", "__pw"} |-> u[f]]

\* u?.password ?? u?.__pw, as String(expected) reads it.
Expected(u) ==
    IF "password" \in DOMAIN u THEN u.password
    ELSE IF "__pw" \in DOMAIN u THEN u.__pw
    ELSE <<"undefined">>

\* users.find(x => String(x.email).toLowerCase() === em): index of the first
\* match, 0 when there is none.
FindUser(users, em) ==
    LET hits == {i \in 1..Len(users) : ToLowerCase(users[i].email) = em}
    IN  IF hits = {} THEN 0 ELSE CHOOSE i \in hits : \A j \in hits : i <= j

\* api.login: the outcome for one user collection.
ApiLogin(users, email, password) ==
    LET em == ToLowerCase(Trim(email))
        i  == FindUser(users, em)
    IN  IF i = 0 THEN [ok |-> FALSE, error |-> "No such user", user |-> NullUser]
        ELSE IF Expected(users[i]) # password
             THEN [ok |-> FALSE, error |-> "Incorrect password", user |-> NullUser]
             ELSE [ok |-> TRUE, error |-> Null, user |-> SafeUser(users[i])]

(* ------------------------------ JSON ---------------------------------- *)

\* localStorage.getItem of a key that was never set.
NoItem == [absent |-> TRUE]

\* JSON.stringify: the text that stands for a value.
JSONstringify(v) == [json |-> v]

\* A stored text that is not JSON, as another program or a cut-off write
\* leaves it.
Malformed == [malformed |-> TRUE]

\* Whether JSON.parse returns for a text rather than throwing a SyntaxError.
Parses(raw) == "json" \in DOMAIN raw

\* JSON.parse of a text JSON.stringify produced.
JSONparse(raw) == raw.json

(* ------------------------------ sessions ------------------------------- *)

\* { isAuthed: false, user: null, token: null }
DefaultAuth == [isAuthed |-> FALSE, user |-> NullUser, token |-> Null]

\* DEFAULT_STATE: the auth slot and, for the seven list slots that start
\* empty, messages.
DEFAULT_STATE == [auth |-> DefaultAuth, messages |-> <<>>]

\* a?.f in a condition: the property is there and is true.
Truthy(a, f) == f \in DOMAIN a /\ a[f] = TRUE

\* generateToken: the random tokens.
Tokens == {"t1"}

\* new Date().toISOString(): a time stamp no code reads back.
IsoDate == "iso-date"

\* The user mockLogin makes up: whatever the email, John Doe, a rep.
MockLoginUser(email) ==
    [id |-> "1", email |-> email, name |-> "John Doe", role |-> "rep",
     avatar |-> Null, createdAt |-> IsoDate]

\* The user mockRegister makes up from the request body.
MockRegisterUser(data) ==
    [id |-> "gen", email |-> data.email, name |-> data.name, role |-> data.role,
     avatar |-> Null, createdAt |-> IsoDate]

\* The user mockVerifyToken returns for any token.
MockVerifyUser ==
    [id |-> "1", email |-> <<"j">>, name |-> "John Doe", role |-> "rep"]

\* The session object Auth.login, Auth.register and Auth.verifyToken write.
AuthSession(token, user) ==
    [token |-> token, user |-> user, isAuthenticated |-> TRUE,
     lastLogin |-> IsoDate]

\* The session object the login form, testLogin and handleLoginSuccess write.
FormSession(user) == [isAuthed |-> TRUE, user |-> user, token |-> "dev"]

(* ------------------------------- state --------------------------------- *)

VARIABLES
    lsState,          \* localStorage['replink_state_v1']
    lsToken,          \* localStorage['auth-token']
    lsExpires,        \* localStorage['session-expires']
    now,              \* Date.now(), in ticks
    state,            \* per tab: Store.state
    currentUser,      \* per tab: Auth.currentUser
    isAuthenticated,  \* per tab: Auth.isAuthenticated
    sessionTimeout,   \* per tab: Auth.sessionTimeout and the timer behind it
    pendingStorage,   \* per tab: storage events not yet delivered
    last,             \* the most recent call: arguments, result, effects
    header,           \* per tab: the links [data-header] shows
    defaults,         \* per tab: the DEFAULT_STATE object of the Store module
                      \* (obj) and whether Store.state is that object (same)
    legacy,           \* the Map-based Store: its data, once loaded
    lsLegacy,         \* localStorage['rep-link-store']
    router,           \* the Router and window.history of the main tab, with
                      \* the popstate listeners, the pages loadPage is
                      \* fetching and what main shows; failed records that
                      \* a dispatch has ended in handleError
    events,           \* EventBus.events, for one event name
    subCount          \* how many times EventBus.on was called

vars == <<lsState, lsToken, lsExpires, now, state, currentUser,
          isAuthenticated, sessionTimeout, pendingStorage, last,
          header, defaults, legacy, lsLegacy, router, events, subCount>>

pageVars == <<header, defaults>>
legacyVars == <<legacy, lsLegacy>>
busVars == <<events, subCount>>

lsVars == <<lsState, lsToken, lsExpires>>
authVars == <<currentUser, isAuthenticated, sessionTimeout>>

\* What is outside the two Stores and the header.
shellVars == <<lsToken, lsExpires, now, authVars>>

\* localStorage['session-expires'] when it was never set.
NoExpiry == -1

\* this.sessionTimeout = null, and no timer.
NoTimer == [set |-> FALSE, live |-> FALSE, at |-> 0]

\* The pages the guards and the forms send the browser to.
LoginPage == "/pages/login.html"
RepDashboard == "/pages/rep-dashboard.html"
BusinessDashboard == "/pages/business-dashboard.html"
ForbiddenPage == "/pages/403.html"
IndexPage == "/index.html"

Here(page) == [path |-> page, next |-> Null]

\* dashboardHrefFor
dashboardHrefFor(user) ==
    IF user = NullUser THEN LoginPage
    ELSE IF user.role = "business" THEN BusinessDashboard ELSE RepDashboard

\* What the most recent call in tab t returned (res), showed and emitted
\* (emitted), where it sent the browser (href) and whether the page or route
\* handler behind a guard ran (ran); a call fills in what applies to it.
Call(t, op) ==
    [tab |-> t, op |-> op, res |-> Null, emitted |-> <<>>,
     href |-> Here(Null), ran |-> FALSE]

(* ------------------------------- Store --------------------------------- *)

\* What a tab holds in place of a Store when the constructor threw while
\* the module was evaluated: nothing exports `store`.
NoStore == [threw |-> "SyntaxError"]

\* new Store(): the parsed blob when there is one, DEFAULT_STATE otherwise;
\* JSON.parse is not guarded, so a text that is not JSON throws.
StoreConstruct(raw) ==
    IF raw = NoItem THEN DEFAULT_STATE
    ELSE IF Parses(raw) THEN JSONparse(raw)
    ELSE NoStore

\* Tab t has a Store.
Loaded(t) == state[t] # NoStore

\* Store.get(path)
StoreGet(t, path) == state[t][path]

\* Store.get('auth')
StoreGetAuth(t) == state[t].auth

\* this.state[path] = value, as it would be if a slot that exists kept its
\* value.
StoreAssignKeepsOld(st, path, value) == st @@ (path :> value)

\* this.state[path] = value
StoreAssign(st, path, value) == (path :> value) @@ st

\* Store.save: the whole state, serialised.
StoreSave(st) == JSONstringify(st)

\* The storage events the other tabs receive for the keys tab t changed.
StorageEvents(t, changed, pend) ==
    [u \in Tabs |->
        IF u = t THEN pend[u]
        ELSE pend[u] \cup {[key |-> k, removed |-> FALSE] : k \in changed}]

\* Store.set('auth', value): assign, save, dispatch auth:changed.  The keys
\* other than replink_state_v1 that the caller wrote are in `alsoChanged`.
\* The storage events still to be delivered before the call are `pend`.
StoreSetAuthFrom(t, value, alsoChanged, pend) ==
    /\ state' = [state EXCEPT ![t] = StoreAssign(@, "auth", value)]
    /\ lsState' = StoreSave(state'[t])
    /\ pendingStorage' =
         StorageEvents(t, alsoChanged \cup
                          (IF lsState' # lsState THEN {"replink_state_v1"} ELSE {}),
                       pend)

StoreSetAuth(t, value, alsoChanged) ==
    StoreSetAuthFrom(t, value, alsoChanged, pendingStorage)

\* Store.clearAuth
StoreClearAuth(t) == StoreSetAuth(t, DefaultAuth, {})

\* updateUser as it would be if it rebuilt the session from the patched
\* user alone and lost the token.
PatchedAuthLosesToken(auth, patch) ==
    [auth EXCEPT !.user = patch @@ auth.user, !.token = Null]

\* Store.updateUser: the patch laid over the session user.
PatchedAuth(auth, patch) ==
    [auth EXCEPT !.user = patch @@ auth.user]

\* Store.set(path, value): assign, save, and for the auth slot dispatch
\* auth:changed.
StoreSet(t, path, value) ==
    /\ Loaded(t)
    /\ state' = [state EXCEPT ![t] = StoreAssign(@, path, value)]
    /\ lsState' = StoreSave(state'[t])
    /\ pendingStorage' =
         StorageEvents(t, IF lsState' # lsState THEN {"replink_state_v1"} ELSE {},
                       pendingStorage)
    /\ last' = [Call(t, "Store.set") EXCEPT
                   !.emitted = IF path = "auth" THEN <<"window:auth:changed">>
                               ELSE <<>>]
    /\ UNCHANGED <<lsToken, lsExpires, now, authVars>>

\* Store.clear(): this.state = { ...DEFAULT_STATE }, then save; no event.
StoreClear(t) ==
    /\ Loaded(t)
    /\ state' = [state EXCEPT ![t] = defaults[t].obj]
    /\ lsState' = StoreSave(state'[t])
    /\ pendingStorage' =
         StorageEvents(t, IF lsState' # lsState THEN {"replink_state_v1"} ELSE {},
                       pendingStorage)
    /\ last' = Call(t, "Store.clear")
    /\ UNCHANGED <<lsToken, lsExpires, now, authVars>>

\* Something other than the Store leaves a text that is not JSON under the
\* Store's key.
Corrupt ==
    /\ lsState # Malformed
    /\ lsState' = Malformed
    /\ last' = Call(1, "corrupt")
    /\ UNCHANGED <<lsToken, lsExpires, now, state, authVars, pendingStorage>>

(* ------------------------------- header -------------------------------- *)

\* The header before any script has rendered it.
BlankHeader == {}

\* renderHeader: the links the header shows for a session.
renderHeader(a) ==
    IF Truthy(a, "isAuthed") THEN {"Home", "Dashboard", "Logout"}
    ELSE {"Home", "Log in", "Sign up"}

(* -------------------------------- Init --------------------------------- *)

\* new Map(): the legacy Store's data before load.
NoData == [k \in {} |-> Null]


Init ==
    /\ lsState = NoItem
    /\ lsToken = Null
    /\ lsExpires = NoExpiry
    /\ now = 0
    /\ state = [t \in Tabs |-> StoreConstruct(NoItem)]
    /\ currentUser = [t \in Tabs |-> NullUser]
    /\ isAuthenticated = [t \in Tabs |-> FALSE]
    /\ sessionTimeout = [t \in Tabs |-> NoTimer]
    /\ pendingStorage = [t \in Tabs |-> {}]
    /\ last = [tab |-> 1, op |-> "init", res |-> Null, emitted |-> <<>>,
               href |-> Here(Null), ran |-> FALSE]
    /\ header = [t \in Tabs |-> renderHeader(DefaultAuth)]
    /\ defaults = [t \in Tabs |-> [obj |-> DEFAULT_STATE, same |-> TRUE]]
    /\ legacy = [data |-> NoData, subs |-> <<>>]
    /\ lsLegacy = NoItem
    /\ router = [entries |-> <<[path |-> "/", next |-> Null]>>, idx |-> 1,
                 history |-> <<>>, failed |-> FALSE,
                 currentRoute |-> Null, listeners |-> 1,
                 inflight |-> {"/404"}, view |-> Null]
    /\ events = <<>>
    /\ subCount = 0

(* -------------------------------- Auth --------------------------------- *)

\* The keys among auth-token and session-expires whose value a
\* handler changed.
ChangedKeys ==
    (IF lsToken' # lsToken THEN {"auth-token"} ELSE {})
    \cup (IF lsExpires' # lsExpires THEN {"session-expires"} ELSE {})

\* Auth.setSessionTimeout: clear the timer the field names, arm a new one
\* only when time remains.
SetSessionTimeout(cur, expiresAt) ==
    LET cleared == IF cur.set THEN [cur EXCEPT !.live = FALSE] ELSE cur
    IN  IF expiresAt - now > 0
        THEN [set |-> TRUE, live |-> TRUE, at |-> expiresAt]
        ELSE cleared

\* What the handlers subscribed to auth:login, auth:register and auth:logout
\* on the event bus show (App.handleAuthLogin, App.handleAuthLogout).
OnBusLogin == <<"bus:auth:login", "toast:welcome-back", "bus:app:user-login">>
OnBusRegister == <<"bus:auth:register">>
OnBusLogout == <<"bus:auth:logout", "toast:logged-out", "bus:app:user-logout">>

\* What Auth.logout shows and emits, in order.
LogoutEmits == <<"window:auth:changed">> \o OnBusLogout \o <<"toast:logged-out">>

\* The finally block of Auth.logout, entered from call c after `before` was
\* shown.
LogoutBodyFrom(t, c, before, pend) ==
    /\ StoreSetAuthFrom(t, DefaultAuth, {}, pend)
    /\ sessionTimeout' = [sessionTimeout EXCEPT ![t] = NoTimer]
    /\ currentUser' = [currentUser EXCEPT ![t] = NullUser]
    /\ isAuthenticated' = [isAuthenticated EXCEPT ![t] = FALSE]
    /\ last' = [c EXCEPT !.emitted = before \o LogoutEmits]
    /\ UNCHANGED <<lsToken, lsExpires, now>>

LogoutBody(t, c, before) == LogoutBodyFrom(t, c, before, pendingStorage)

\* Auth.login
AuthLogin(t, email, password, tok, offline) ==
    LET c == Call(t, "Auth.login")
        user == MockLoginUser(email)
        expiresAt == now + SessionTTL
    IN  IF ~offline /\ email # <<>> /\ password # <<>>
        THEN /\ lsToken' = tok
             /\ lsExpires' = expiresAt
             /\ currentUser' = [currentUser EXCEPT ![t] = user]
             /\ isAuthenticated' = [isAuthenticated EXCEPT ![t] = TRUE]
             /\ StoreSetAuth(t, AuthSession(tok, user), ChangedKeys)
             /\ sessionTimeout' = [sessionTimeout EXCEPT
                                     ![t] = SetSessionTimeout(@, expiresAt)]
             /\ last' = [c EXCEPT !.res = "ok",
                            !.emitted = <<"window:auth:changed">> \o OnBusLogin
                                        \o <<"toast:welcome-back">>]
             /\ UNCHANGED now
        ELSE /\ last' = [c EXCEPT
                            !.res = IF offline THEN "You are offline"
                                    ELSE "Invalid credentials",
                            !.emitted = <<"toast:error">>]
             /\ UNCHANGED <<lsVars, now, state, authVars, pendingStorage>>

\* The request bodies the signup page can send to Auth.register.
RegisterInputs ==
    { [email |-> <<"x">>, pw |-> <<"p", "w", "3">>, name |-> "New Biz",
       role |-> "business"],
      [email |-> <<"x">>, pw |-> <<"p", "w", "3">>, name |-> "",
       role |-> "rep"] }

\* Auth.register
AuthRegister(t, data, tok, offline) ==
    LET c == Call(t, "Auth.register")
        user == MockRegisterUser(data)
        expiresAt == now + SessionTTL
    IN  IF ~offline /\ data.email # <<>> /\ data.pw # <<>> /\ data.name # ""
           /\ data.role # ""
        THEN /\ lsToken' = tok
             /\ lsExpires' = expiresAt
             /\ currentUser' = [currentUser EXCEPT ![t] = user]
             /\ isAuthenticated' = [isAuthenticated EXCEPT ![t] = TRUE]
             /\ StoreSetAuth(t, AuthSession(tok, user), ChangedKeys)
             /\ sessionTimeout' = [sessionTimeout EXCEPT
                                     ![t] = SetSessionTimeout(@, expiresAt)]
             /\ last' = [c EXCEPT !.res = "ok",
                            !.emitted = <<"window:auth:changed">> \o OnBusRegister
                                        \o <<"toast:welcome">>]
             /\ UNCHANGED now
        ELSE /\ last' = [c EXCEPT
                            !.res = IF offline THEN "You are offline"
                                    ELSE "Invalid registration data",
                            !.emitted = <<"toast:error">>]
             /\ UNCHANGED <<lsVars, now, state, authVars, pendingStorage>>

\* Auth.logout
AuthLogout(t) == LogoutBody(t, Call(t, "Auth.logout"), <<>>)

\* Auth.verifyToken, called as `op`.
VerifyTokenBody(t, token, offline, op) ==
    LET c == Call(t, op)
    IN  IF ~offline /\ lsToken # Null
        THEN /\ currentUser' = [currentUser EXCEPT ![t] = MockVerifyUser]
             /\ isAuthenticated' = [isAuthenticated EXCEPT ![t] = TRUE]
             /\ StoreSetAuth(t, AuthSession(token, MockVerifyUser), {})
             /\ sessionTimeout' = [sessionTimeout EXCEPT ![t] =
                    IF lsExpires # NoExpiry THEN SetSessionTimeout(@, lsExpires)
                    ELSE @]
             /\ last' = [c EXCEPT !.res = "true",
                            !.emitted = <<"window:auth:changed">>]
             /\ UNCHANGED <<lsToken, lsExpires, now>>
        ELSE LogoutBody(t, [c EXCEPT !.res = "false"], <<>>)

VerifyToken(t, token, offline) ==
    VerifyTokenBody(t, token, offline, "Auth.verifyToken")

\* Auth.handleVisibilityChange, the page having become visible.
VisibilityChange(t, offline) ==
    IF lsToken # Null /\ isAuthenticated[t]
    THEN VerifyTokenBody(t, lsToken, offline, "visibilitychange")
    ELSE /\ last' = Call(t, "visibilitychange")
         /\ UNCHANGED <<lsVars, now, state, authVars, pendingStorage>>

\* The expiry timer's callback: the notice, then logout.
TimerFire(t) ==
    /\ sessionTimeout[t].live
    /\ now >= sessionTimeout[t].at
    /\ LogoutBody(t, Call(t, "expiry"), <<"toast:expired">>)

\* Auth.handleStorageChange for one delivered storage event.
StorageEvent(t, ev) ==
    /\ ev \in pendingStorage[t]
    /\ IF ev.key = "auth-token" /\ ev.removed
       THEN LogoutBodyFrom(t, Call(t, "storage"), <<>>,
                           [pendingStorage EXCEPT ![t] = @ \ {ev}])
       ELSE /\ pendingStorage' = [pendingStorage EXCEPT ![t] = @ \ {ev}]
            /\ last' = Call(t, "storage")
            /\ UNCHANGED <<lsVars, now, state, authVars>>

\* Time passes.
Tick ==
    /\ now < MaxTime
    /\ now' = now + 1
    /\ UNCHANGED <<lsVars, state, authVars, pendingStorage, last>>

(* ----------------------- forms and header controls --------------------- *)

\* The submit handler of #loginForm.
FormLogin(t, rawEmail, password, users) ==
    LET email == Trim(rawEmail)
        c == Call(t, "form.login")
        r == ApiLogin(users, email, password)
    IN  IF email = <<>> \/ Len(password) < MinPasswordLen
        THEN /\ last' = [c EXCEPT !.res = "Enter a valid email and password."]
             /\ UNCHANGED <<lsVars, now, state, authVars, pendingStorage>>
        ELSE IF r.ok
        THEN /\ StoreSetAuth(t, FormSession(r.user), {})
             /\ last' = [c EXCEPT !.res = "ok",
                            !.emitted = <<"window:auth:changed">>,
                            !.href = Here(dashboardHrefFor(r.user))]
             /\ UNCHANGED <<lsToken, lsExpires, now, authVars>>
        ELSE /\ last' = [c EXCEPT !.res = r.error]
             /\ UNCHANGED <<lsVars, now, state, authVars, pendingStorage>>

\* What handleStep1 leaves in signupData.
SignupInputs ==
    { [fullName |-> "New Biz", email |-> <<"X">>, phone |-> "2",
       password |-> <<"p", "w", "3">>, role |-> "business"] }

\* handleStep2: the new user is signed in at once.
Signup(t, data) ==
    LET newUser == [id |-> "u-new", name |-> data.fullName, email |-> data.email,
                    phone |-> data.phone, role |-> data.role,
                    fullName |-> data.fullName, password |-> data.password]
        target == IF data.role = "business" THEN BusinessDashboard ELSE RepDashboard
        c == Call(t, "signup")
    IN  /\ StoreSetAuth(t, [isAuthed |-> TRUE, user |-> newUser,
                            token |-> "mock-token"], {})
        /\ last' = [c EXCEPT !.res = "ok", !.emitted = <<"window:auth:changed">>,
                       !.href = Here(target)]
        /\ UNCHANGED <<lsToken, lsExpires, now, authVars>>

\* The click handler of [data-action="logout"].
HeaderLogout(t) ==
    /\ StoreClearAuth(t)
    /\ last' = [Call(t, "header.logout") EXCEPT
                   !.emitted = <<"window:auth:changed">>, !.href = Here(IndexPage)]
    /\ UNCHANGED <<lsToken, lsExpires, now, authVars>>

\* The patches feature code hands to Store.updateUser.
Patches == { [role |-> "business"] }

\* Store.updateUser
UpdateUser(t, patch) ==
    LET auth == StoreGetAuth(t)
    IN  IF auth.user = NullUser
        THEN /\ last' = Call(t, "updateUser")
             /\ UNCHANGED <<lsVars, now, state, authVars, pendingStorage>>
        ELSE /\ StoreSetAuth(t, PatchedAuth(auth, patch), {})
             /\ last' = [Call(t, "updateUser") EXCEPT
                            !.emitted = <<"window:auth:changed">>]
             /\ UNCHANGED <<lsToken, lsExpires, now, authVars>>

\* A page load in tab t: new Store(), new Auth(), Auth.init.
Reload(t) ==
    LET st == StoreConstruct(lsState)
        restored == /\ st # NoStore
                    /\ Truthy(st.auth, "isAuthed")
                    /\ st.auth.user # NullUser
    IN  /\ state' = [state EXCEPT ![t] = st]
        /\ currentUser' = [currentUser EXCEPT
                              ![t] = IF restored THEN st.auth.user ELSE NullUser]
        /\ isAuthenticated' = [isAuthenticated EXCEPT ![t] = restored]
        /\ sessionTimeout' = [sessionTimeout EXCEPT ![t] = NoTimer]
        /\ pendingStorage' = [pendingStorage EXCEPT ![t] = {}]
        /\ last' = [Call(t, "load") EXCEPT
                       !.res = IF st = NoStore THEN NoStore.threw ELSE Null]
        /\ UNCHANGED <<lsVars, now>>

\* What else the page of tab t holds after a call in that tab. The header:
\* the listeners on window and document render it on DOMContentLoaded, on
\* auth:changed, and in the logout click; a page whose Store module threw
\* has none of them. The DEFAULT_STATE object: a Store built without a blob
\* has it as its state, so that every assignment to a slot is an assignment
\* to DEFAULT_STATE, until clear gives the Store an object of its own.
Rendered(t) ==
    /\ header' =
         [header EXCEPT ![t] =
            IF ~Loaded(t)' THEN BlankHeader
            ELSE IF \/ last'.op \in {"load", "header.logout"}
                    \/ \E i \in DOMAIN last'.emitted :
                          last'.emitted[i] = "window:auth:changed"
                 THEN renderHeader(state'[t].auth)
                 ELSE @]
    /\ defaults' =
         [defaults EXCEPT ![t] =
            IF last'.op = "load"
            THEN [obj |-> DEFAULT_STATE, same |-> (lsState = NoItem)]
            ELSE IF last'.op = "Store.clear" THEN [@ EXCEPT !.same = FALSE]
            ELSE IF @.same THEN [@ EXCEPT !.obj = state'[t]]
            ELSE @]
    /\ UNCHANGED <<legacyVars, router, busVars>>

(* ------------------------------- guards -------------------------------- *)

\* The roles a guard can be asked for; Null is a call without a role.
GuardRoles == {Null, "rep", "business"}

\* The pages a guard is called on.
GuardedPages == {RepDashboard}

\* The outcome of a guard that reads the Store: the value it returns and
\* where it sends the browser (Here(Null): nowhere).
\* guard(role) of features/guards.js
guard(auth, role, path) ==
    IF ~Truthy(auth, "isAuthed")
    THEN [res |-> "false", href |-> Here(LoginPage)]
    ELSE IF role # Null /\ auth.user.role # role
    THEN [res |-> "false",
          href |-> Here(IF auth.user.role = "business" THEN BusinessDashboard
                        ELSE RepDashboard)]
    ELSE [res |-> "true", href |-> Here(Null)]

\* guardPage(requiredRole) exported by app.js; App.requireAuthRole reads
\* the same
guardPage(auth, role, path) ==
    IF ~Truthy(auth, "isAuthed")
    THEN [res |-> "false", href |-> [path |-> LoginPage, next |-> path]]
    ELSE IF role # Null /\ auth.user.role # role
    THEN [res |-> "false", href |-> Here(ForbiddenPage)]
    ELSE [res |-> "true", href |-> Here(Null)]

\* App.guardPage(role): the same redirects, and no return statement
AppGuardPage(auth, role, path) ==
    [res |-> "undefined", href |-> guardPage(auth, role, path).href]

\* A page script calls a guard and goes on only when it returned true
\* (if (!requireRep()) return;).
RunGuard(t, op, out) ==
    /\ last' = [Call(t, op) EXCEPT !.res = out.res, !.href = out.href,
                   !.ran = (out.res = "true")]
    /\ UNCHANGED <<lsVars, now, state, authVars, pendingStorage>>

\* The role the script of a dashboard page asks its guard for
\* (requireRep, requireBusiness); the other pages call no guard.
PageRole == (RepDashboard :> "rep") @@ (BusinessDashboard :> "business")

\* The browser opens a guarded page and its script calls a guard.
Guard(t, role, page) ==
    RunGuard(t, "guard", guard(StoreGetAuth(t), role, page))

GuardPage(t, role, page) ==
    RunGuard(t, "guardPage", guardPage(StoreGetAuth(t), role, page))

CallAppGuardPage(t, role, page) ==
    RunGuard(t, "App.guardPage", AppGuardPage(StoreGetAuth(t), role, page))

(* ------------------------------- Router -------------------------------- *)

\* The routes registered with addRoute. The handler of "/boom" throws.
Routes ==
    [p \in {"/login", "/dashboard", "/rep", "/business", "/boom"} |->
        CASE p = "/login"     -> [requiresAuth |-> FALSE, roles |-> {},
                                  throws |-> FALSE]
          [] p = "/dashboard" -> [requiresAuth |-> TRUE, roles |-> {},
                                  throws |-> FALSE]
          [] p = "/rep"       -> [requiresAuth |-> TRUE, roles |-> {"rep"},
                                  throws |-> FALSE]
          [] p = "/business"  -> [requiresAuth |-> TRUE, roles |-> {"business"},
                                  throws |-> FALSE]
          [] p = "/boom"      -> [requiresAuth |-> FALSE, roles |-> {},
                                  throws |-> TRUE]]

\* The paths a link or the address bar asks the Router for.
RouterPaths == DOMAIN Routes \cup {"/nowhere"}

\* localStorage['user-role'], which no code writes.
LsUserRole == Null

\* Router.isAuthenticated
RouterIsAuthenticated == lsToken # Null

\* Router.hasRequiredRole
hasRequiredRole(roles) == LsUserRole \in roles

\* A dispatch with no catch around the handler: the exception leaves
\* handleRoute.
CaughtNot(res) == res

\* catch (error) { this.handleError(error) } around the body of handleRoute:
\* a throw ends in the error view of handleError.
Caught(res) == IF res = "threw" THEN "error" ELSE res

\* Router.handleRoute, with the navigate calls it makes: the route whose
\* handler runs (Null: none), the path the browser ends on, the returnTo
\* state carried to it, what the page shows, and the entries its redirects
\* push.
RECURSIVE handleRoute(_, _)
handleRoute(path, returnTo) ==
    LET via(to, st) ==
            LET o == handleRoute(to, st)
            IN  [o EXCEPT !.pushed = <<[path |-> to, next |-> st]>> \o @]
    IN  IF path \notin DOMAIN Routes
        THEN [ran |-> Null, href |-> [path |-> path, next |-> returnTo],
              res |-> "not-found", pushed |-> <<>>]
        ELSE IF Routes[path].requiresAuth /\ ~RouterIsAuthenticated
        THEN via("/login", path)
        ELSE IF Routes[path].roles # {} /\ ~hasRequiredRole(Routes[path].roles)
        THEN via("/unauthorized", Null)
        ELSE [ran |-> path, href |-> [path |-> path, next |-> returnTo],
              res |-> Caught(IF Routes[path].throws THEN "threw" ELSE "handled"),
              pushed |-> <<>>]

\* history.pushState and Router.addToHistory for each entry of es in turn:
\* the entries ahead of the current one are dropped, and both lists lose
\* their oldest entry beyond MaxHistory.
RECURSIVE PushAll(_, _)
PushAll(r, es) ==
    IF es = <<>> THEN r
    ELSE LET cap(q) == IF Len(q) > MaxHistory THEN Tail(q) ELSE q
             entries == cap(SubSeq(r.entries, 1, r.idx) \o <<Head(es)>>)
         IN  PushAll([r EXCEPT !.entries = entries, !.idx = Len(entries),
                               !.history = cap(@ \o <<Head(es)>>)],
                     Tail(es))

\* The Router r after each of n callers in turn ran handleRoute for the
\* path in the address bar with the history state st: the redirects pushed,
\* the route and the view a handler that returned leaves, and the fetch
\* that handleNotFound and handleError start through loadPage.
RECURSIVE Dispatches(_, _, _)
Dispatches(r, st, n) ==
    IF n = 0 THEN r
    ELSE LET out == handleRoute(r.entries[r.idx].path, st)
             page == IF out.res = "not-found" THEN {"/404"}
                     ELSE IF out.res = "error" THEN {"/error"} ELSE {}
         IN  Dispatches(
                [PushAll(r, out.pushed) EXCEPT
                    !.currentRoute = IF out.ran # Null THEN out.ran ELSE @,
                    !.failed = @ \/ out.res = "error",
                    !.inflight = @ \cup page,
                    !.view = IF out.res = "handled" THEN out.ran ELSE @],
                st, n - 1)

\* What n dispatches leave in the Router r and report as call c: the
\* outcome of the first, and the path of each.
Dispatched(r, st, c, n) ==
    LET e == r.entries[r.idx]
        out == handleRoute(e.path, st)
    IN  /\ router' = Dispatches(r, st, n)
        /\ last' = [c EXCEPT !.res = out.res, !.href = out.href,
                             !.ran = (out.ran = e.path),
                             !.emitted = [i \in 1..n |->
                                 Dispatches(r, st, i - 1).entries[
                                     Dispatches(r, st, i - 1).idx].path]]
        /\ UNCHANGED <<lsVars, now, state, authVars, pendingStorage>>

\* Router.navigate(path)
Navigate(t, path) ==
    Dispatched(PushAll(router, <<[path |-> path, next |-> Null]>>), Null,
               Call(t, "navigate"), 1)

\* The browser's back (d = -1) or forward (d = 1) button, and
\* Router.handlePopState in each popstate listener for the entry it lands on.
PopState(t, d) ==
    /\ router.idx + d \in DOMAIN router.entries
    /\ Dispatched([router EXCEPT !.idx = @ + d],
                  router.entries[router.idx + d].next,
                  Call(t, "popstate"), router.listeners)

\* Router.loadPage after its await: the response for page arrives and, when
\* it is ok, its content replaces that of main; showError otherwise.
FetchResolves(t, page, ok) ==
    /\ page \in router.inflight
    /\ router' = [router EXCEPT !.inflight = @ \ {page},
                                !.view = IF ok THEN page ELSE "load-failed"]
    /\ last' = [Call(t, "loadPage") EXCEPT !.res = page]
    /\ UNCHANGED <<lsVars, now, state, authVars, pendingStorage>>

\* App.init, which calls Router.init on the Router its constructor built:
\* one more popstate listener and one more dispatch of the current path.
AppInit(t) ==
    /\ router.listeners = 1
    /\ Dispatched([router EXCEPT !.listeners = @ + 1],
                  Null, Call(t, "App.init"), 1)

(* ------------------------- handlers and emit --------------------------- *)

\* The callbacks components subscribe; those in Throwing throw when called.
Handlers == {"h1", "h2", "h3"}
Throwing == {"h2"}

\* forEach over callbacks with no try/catch around the call: the first
\* throw ends the loop and leaves through the caller.
RECURSIVE DispatchUnguarded(_)
DispatchUnguarded(callbacks) ==
    IF callbacks = <<>> THEN [invoked |-> <<>>, threw |-> FALSE]
    ELSE IF Head(callbacks) \in Throwing
         THEN [invoked |-> <<Head(callbacks)>>, threw |-> TRUE]
         ELSE LET rest == DispatchUnguarded(Tail(callbacks))
              IN  [invoked |-> <<Head(callbacks)>> \o rest.invoked,
                   threw |-> rest.threw]

\* forEach(cb => { try { cb(...) } catch (error) { console.error(...) } }):
\* the callbacks invoked, in order, and whether a throw left the loop.
RECURSIVE Dispatch(_)
Dispatch(callbacks) ==
    IF callbacks = <<>> THEN [invoked |-> <<>>, threw |-> FALSE]
    ELSE LET rest == Dispatch(Tail(callbacks))
         IN  [invoked |-> <<Head(callbacks)>> \o rest.invoked,
              threw |-> rest.threw]

(* ------------------------------ EventBus ------------------------------- *)

\* The priorities a subscriber passes in options; 0 is the default.
Priorities == {0, 1}

\* An array left as it was pushed.
Unsorted(subs) == subs

\* subscriptions.sort((a, b) => b.priority - a.priority): higher priority
\* first, subscriptions of equal priority in the order they had.
RECURSIVE SortByPriority(_)
SortByPriority(subs) ==
    IF subs = <<>> THEN <<>>
    ELSE LET x == subs[Len(subs)]
             rest == SortByPriority(SubSeq(subs, 1, Len(subs) - 1))
             k == Cardinality({i \in DOMAIN rest : rest[i].priority >= x.priority})
         IN  SubSeq(rest, 1, k) \o <<x>> \o SubSeq(rest, k + 1, Len(rest))

\* The array of EventBus.off: without the first subscription of callback.
Without(subs, callback) ==
    IF \E i \in DOMAIN subs : subs[i].cb = callback
    THEN LET index == CHOOSE i \in DOMAIN subs :
                         /\ subs[i].cb = callback
                         /\ \A j \in 1..(i - 1) : subs[j].cb # callback
         IN  SubSeq(subs, 1, index - 1) \o SubSeq(subs, index + 1, Len(subs))
    ELSE subs

\* The array after emit went through its copy `called`: each one-time
\* subscription whose callback returned called off with that callback.
RECURSIVE AfterEmit(_, _)
AfterEmit(subs, called) ==
    IF called = <<>> THEN subs
    ELSE AfterEmit(IF Head(called).once /\ Head(called).cb \notin Throwing
                   THEN Without(subs, Head(called).cb) ELSE subs,
                   Tail(called))

\* What the shell and the other components hold.
notBus == <<lsState, state, pendingStorage, shellVars, pageVars, router,
            legacyVars>>

\* EventBus.on(event, callback, {once, priority}), for one event; n is the
\* ordinal of the call, which the bus does not keep.
On(callback, once, priority) ==
    /\ subCount < MaxSubs
    /\ subCount' = subCount + 1
    /\ events' = SortByPriority(Append(events,
                     [cb |-> callback, once |-> once, priority |-> priority,
                      n |-> subCount + 1]))
    /\ last' = Call(MainTab, "on")
    /\ UNCHANGED notBus

\* EventBus.off(event, callback)
Off(callback) ==
    /\ events' = Without(events, callback)
    /\ last' = Call(MainTab, "off")
    /\ UNCHANGED <<subCount, notBus>>

\* EventBus.emit(event)
Emit ==
    LET out == Dispatch([i \in DOMAIN events |-> events[i].cb])
    IN  /\ events' = AfterEmit(events, events)
        /\ last' = [Call(MainTab, "emit") EXCEPT
                       !.emitted = out.invoked,
                       !.res = IF out.threw THEN "threw" ELSE Null]
        /\ UNCHANGED <<subCount, notBus>>

(* ----------------------- the Map-based Store --------------------------- *)

\* initializeDefaultData: the entries it sets, auth and, for the lists,
\* messages.
LegacyDefaultData ==
    [auth |-> [token |-> Null, user |-> NullUser, isAuthenticated |-> FALSE,
               lastLogin |-> Null],
     messages |-> <<>>]

\* Store.load: the parsed blob when it parses, the defaults over whatever
\* the Map holds when it does not or when the Map is then empty.
LegacyLoaded(data, raw) ==
    LET got == IF raw # NoItem /\ Parses(raw) THEN JSONparse(raw) ELSE data
    IN  IF (raw # NoItem /\ ~Parses(raw)) \/ DOMAIN got = {}
        THEN LegacyDefaultData @@ got
        ELSE got

\* Store.init: load, then setupAutoSave, which calls this.on, a method the
\* class does not have; init catches the TypeError and throws it again.
LegacyInit ==
    /\ legacy' = [legacy EXCEPT !.data = LegacyLoaded(@, lsLegacy)]
    /\ last' = [Call(MainTab, "legacy.init") EXCEPT !.res = "TypeError"]
    /\ UNCHANGED lsLegacy

\* Store.get(key, defaultValue = null)
LegacyGet(data, key) == IF key \in DOMAIN data THEN data[key] ELSE Null

\* this.data.set(key, value)
LegacyAssign(data, key, value) == (key :> value) @@ data

\* Store.subscribe('data:changed', callback)
LegacySubscribe(h) ==
    /\ Len(legacy.subs) < MaxSubs
    /\ legacy' = [legacy EXCEPT !.subs = Append(@, h)]
    /\ last' = Call(MainTab, "legacy.subscribe")
    /\ UNCHANGED lsLegacy

\* Store.set(key, value): the Map entry, then emit('data:changed') to the
\* subscribers; nothing is written to localStorage.
LegacySet(key, value) ==
    LET out == Dispatch(legacy.subs)
    IN  /\ legacy' = [legacy EXCEPT !.data = LegacyAssign(@, key, value)]
        /\ last' = [Call(MainTab, "legacy.set") EXCEPT
                       !.res = IF out.threw THEN "threw" ELSE "returned",
                       !.emitted = out.invoked]
        /\ UNCHANGED lsLegacy

\* Store.save
LegacySave ==
    /\ lsLegacy' = JSONstringify(legacy.data)
    /\ last' = Call(MainTab, "legacy.save")
    /\ UNCHANGED legacy

\* A text that is not JSON appears under the legacy Store's key.
LegacyCorrupt ==
    /\ lsLegacy # Malformed
    /\ lsLegacy' = Malformed
    /\ last' = Call(MainTab, "legacy.corrupt")
    /\ UNCHANGED legacy

(* -------------------------------- Next --------------------------------- *)

\* What users type into the email and password fields.
EmailInputs == { <<" ", "R">>, <<"b">>, <<"x">>, <<>> }
PasswordInputs ==
    { <<"p", "w", "1">>, <<"p", "w", "2">>, <<"p", "w", "9">>, <<"p">>, <<>> }

\* Every operation of the shell in the main tab.
MainNext ==
    \/ \E e \in EmailInputs \ {<<"x">>}, p \in PasswordInputs,
          k \in Tokens, off \in BOOLEAN :
          AuthLogin(MainTab, e, p, k, off) /\ Rendered(MainTab)
    \/ \E d \in RegisterInputs, k \in Tokens, off \in BOOLEAN :
          AuthRegister(MainTab, d, k, off) /\ Rendered(MainTab)
    \/ AuthLogout(MainTab) /\ Rendered(MainTab)
    \/ \E k \in Tokens, off \in BOOLEAN :
          VerifyToken(MainTab, k, off) /\ Rendered(MainTab)
    \/ \E off \in BOOLEAN : VisibilityChange(MainTab, off) /\ Rendered(MainTab)
    \/ TimerFire(MainTab) /\ Rendered(MainTab)
    \/ \E ev \in pendingStorage[MainTab] :
          StorageEvent(MainTab, ev) /\ Rendered(MainTab)
    \/ \E e \in EmailInputs, p \in PasswordInputs, us \in UserCollections :
          FormLogin(MainTab, e, p, us) /\ Rendered(MainTab)
    \/ \E d \in SignupInputs : Signup(MainTab, d) /\ Rendered(MainTab)
    \/ HeaderLogout(MainTab) /\ Rendered(MainTab)
    \/ \E pt \in Patches : UpdateUser(MainTab, pt) /\ Rendered(MainTab)
    \/ Reload(MainTab) /\ Rendered(MainTab)
    \/ \E r \in GuardRoles, pg \in GuardedPages :
          Guard(MainTab, r, pg) /\ Rendered(MainTab)
    \/ \E r \in GuardRoles, pg \in GuardedPages :
          GuardPage(MainTab, r, pg) /\ Rendered(MainTab)
    \/ \E r \in GuardRoles, pg \in GuardedPages :
          CallAppGuardPage(MainTab, r, pg) /\ Rendered(MainTab)
    \/ Tick /\ UNCHANGED <<pageVars, legacyVars, router, busVars>>

\* Meanwhile another tab logs out.
OtherNext == \E t \in Tabs \ {MainTab} : AuthLogout(t) /\ Rendered(t)

Next == MainNext \/ OtherNext

Spec == Init /\ [][Next]_vars

\* Tabs that log in, log out, reload, run a guard and receive each other's
\* storage events, all alike.
TabsNext ==
    \/ \E t \in Tabs, k \in Tokens :
          AuthLogin(t, <<"b">>, <<"p", "w", "1">>, k, FALSE) /\ Rendered(t)
    \/ \E t \in Tabs :
          FormLogin(t, <<"b">>, <<"p", "w", "1">>, FallbackWithPw) /\ Rendered(t)
    \/ \E t \in Tabs : AuthLogout(t) /\ Rendered(t)
    \/ \E t \in Tabs : HeaderLogout(t) /\ Rendered(t)
    \/ \E t \in Tabs : TimerFire(t) /\ Rendered(t)
    \/ \E t \in Tabs : \E ev \in pendingStorage[t] :
          StorageEvent(t, ev) /\ Rendered(t)
    \/ \E t \in Tabs : Reload(t) /\ Rendered(t)
    \/ \E t \in Tabs, r \in GuardRoles, pg \in GuardedPages :
          Guard(t, r, pg) /\ Rendered(t)
    \/ Tick /\ UNCHANGED <<pageVars, legacyVars, router, busVars>>

SpecTabs == Init /\ [][TabsNext]_vars

\* The slots written and the values written to them.
Slots == {"auth", "messages"}
SlotValues(path) ==
    IF path = "auth"
    THEN { DefaultAuth,
           FormSession(SafeUser(FallbackWithPw[1])),
           [isAuthed |-> TRUE, user |-> NullUser, token |-> "dev"] }
    ELSE { <<>>, <<"m1">> }

\* The Store by itself: set, page loads, and a text that is not JSON under
\* its key.
StoreNext ==
    \/ \E t \in Tabs, path \in Slots : \E v \in SlotValues(path) :
          StoreSet(t, path, v) /\ Rendered(t)
    \/ \E t \in Tabs : StoreClear(t) /\ Rendered(t)
    \/ \E t \in Tabs : Reload(t) /\ Rendered(t)
    \/ Corrupt /\ UNCHANGED <<pageVars, legacyVars, router, busVars>>

SpecStore == Init /\ [][StoreNext]_vars

\* What the Map-based Store leaves alone.
notLegacy == <<lsState, state, pendingStorage, shellVars, pageVars, router,
               busVars>>

\* The Map-based Store by itself.
LegacyNext ==
    \/ LegacyInit /\ UNCHANGED notLegacy
    \/ \E h \in Handlers : LegacySubscribe(h) /\ UNCHANGED notLegacy
    \/ \E path \in Slots : \E v \in SlotValues(path) :
          LegacySet(path, v) /\ UNCHANGED notLegacy
    \/ LegacySave /\ UNCHANGED notLegacy
    \/ LegacyCorrupt /\ UNCHANGED notLegacy

SpecLegacy == Init /\ [][LegacyNext]_vars

\* The EventBus by itself, for one event.
BusNext ==
    \/ \E h \in Handlers, o \in BOOLEAN, pr \in Priorities : On(h, o, pr)
    \/ \E h \in Handlers : Off(h)
    \/ Emit

SpecBus == Init /\ [][BusNext]_vars

\* The guards next to the forms that open a session: the signup page is
\* opened with a role parameter in its URL, which handleStep1 keeps when the
\* form has no role field checked.
GuardNext ==
    \/ \E d \in SignupInputs, r \in {"rep", "business", "partner"} :
          Signup(MainTab, [d EXCEPT !.role = r]) /\ Rendered(MainTab)
    \/ \E e \in EmailInputs, p \in PasswordInputs :
          FormLogin(MainTab, e, p, FallbackWithPw) /\ Rendered(MainTab)
    \/ HeaderLogout(MainTab) /\ Rendered(MainTab)
    \/ Reload(MainTab) /\ Rendered(MainTab)
    \/ \E r \in GuardRoles, pg \in DOMAIN PageRole :
          Guard(MainTab, r, pg) /\ Rendered(MainTab)
    \/ \E r \in GuardRoles, pg \in DOMAIN PageRole :
          GuardPage(MainTab, r, pg) /\ Rendered(MainTab)

SpecGuard == Init /\ [][GuardNext]_vars

\* The Router of the main tab next to a session that is opened, closed and
\* left to expire. Of the two routes limited to a role, one is visited.
RouterNext ==
    \/ AuthLogin(MainTab, <<"b">>, <<"p", "w", "1">>, "t1", FALSE)
       /\ Rendered(MainTab)
    \/ AuthLogout(MainTab) /\ Rendered(MainTab)
    \/ TimerFire(MainTab) /\ Rendered(MainTab)
    \/ Tick /\ UNCHANGED <<pageVars, legacyVars, router, busVars>>
    \/ \E p \in RouterPaths \ {"/business"} :
          Navigate(MainTab, p) /\ UNCHANGED <<pageVars, legacyVars, busVars>>
    \/ \E d \in {-1, 1} :
          PopState(MainTab, d) /\ UNCHANGED <<pageVars, legacyVars, busVars>>
    \/ \E pg \in router.inflight, ok \in BOOLEAN :
          FetchResolves(MainTab, pg, ok)
          /\ UNCHANGED <<pageVars, legacyVars, busVars>>

SpecRouter == Init /\ [][RouterNext]_vars

\* The Router as App builds and starts it, with no session.
AppNext ==
    \/ AppInit(MainTab) /\ UNCHANGED <<pageVars, legacyVars, busVars>>
    \/ \E p \in {"/login", "/dashboard", "/boom", "/nowhere"} :
          Navigate(MainTab, p) /\ UNCHANGED <<pageVars, legacyVars, busVars>>
    \/ \E d \in {-1, 1} :
          PopState(MainTab, d) /\ UNCHANGED <<pageVars, legacyVars, busVars>>
    \/ \E pg \in router.inflight, ok \in BOOLEAN :
          FetchResolves(MainTab, pg, ok)
          /\ UNCHANGED <<pageVars, legacyVars, busVars>>

SpecApp == Init /\ [][AppNext]_vars

(* ------------------------------- claims -------------------------------- *)

\* The session in a slot counts as authenticated when it carries a true
\* flag under either name the code writes: isAuthed (login form, signup,
\* the Store's default) or isAuthenticated (Auth.login, register, verifyToken).
AuthFlag(a) == Truthy(a, "isAuthed") \/ Truthy(a, "isAuthenticated")

Populated(a) == a.user # NullUser /\ a.token # Null

\* C1: in every reachable state the session in each tab's auth slot has a
\* true authenticated flag exactly when its user and its token are both
\* non-null.
C1_SessionNeverPartial ==
    \A t \in Tabs : AuthFlag(state[t].auth) <=> Populated(state[t].auth)

\* updateUser has patched the user of an authenticated session.
C1_Witness ==
    /\ last.op = "updateUser"
    /\ last.emitted # <<>>
    /\ AuthFlag(state[MainTab].auth)
    /\ state[MainTab].auth.user.id = "1"
    /\ state[MainTab].auth.user.role = "business"

\* The records of a collection that an email input names once it is trimmed
\* and lower-cased.
Names(e, us, i) == ToLowerCase(Trim(e)) = us[i].email

\* C2: a login with an email that names a record of the loaded collection
\* and with that record's password succeeds and leaves that record's user,
\* without the password, as the authenticated session user.
C2_LoginSucceeds ==
    [][\A us \in UserCollections : \A i \in DOMAIN us :
       \A e \in EmailInputs, p \in PasswordInputs, k \in Tokens :
          ( /\ Names(e, us, i)
            /\ p = Expected(us[i])
            /\ \/ FormLogin(MainTab, e, p, us)
               \/ AuthLogin(MainTab, e, p, k, FALSE) )
          => /\ last'.res = "ok"
             /\ AuthFlag(state'[MainTab].auth)
             /\ state'[MainTab].auth.user = SafeUser(us[i])]_vars

\* C3: a login with the email of an existing user and a wrong password (one
\* long enough for the login form to submit it) fails with "Incorrect
\* password" and leaves the auth slot and the stored blob as they were.
C3_WrongPasswordLeavesSession ==
    [][\A e \in EmailInputs, p \in PasswordInputs, k \in Tokens :
          ( /\ Len(p) >= MinPasswordLen
            /\ \E us \in UserCollections : \E i \in DOMAIN us : Names(e, us, i)
            /\ \A us \in UserCollections : \A i \in DOMAIN us :
                  Names(e, us, i) => p # Expected(us[i])
            /\ \/ \E us \in UserCollections : FormLogin(MainTab, e, p, us)
               \/ AuthLogin(MainTab, e, p, k, FALSE) )
          => /\ last'.res = "Incorrect password"
             /\ UNCHANGED <<state, lsState>>]_vars

\* C4: a slot that holds an anonymous session becomes authenticated only by
\* a login, register or signup call of that tab that succeeded.
C4_OnlyLoginAuthenticates ==
    [][\A t \in Tabs :
          (~AuthFlag(state[t].auth) /\ AuthFlag(state'[t].auth))
          => /\ last'.tab = t
             /\ last'.op \in {"Auth.login", "Auth.register", "form.login", "signup"}
             /\ last'.res = "ok"]_vars

\* C5: logout called on an anonymous session changes neither the auth slot
\* nor the stored blob and emits and shows nothing.
C5_LogoutIdempotent ==
    [][\A t \in Tabs :
          (AuthLogout(t) /\ ~AuthFlag(state[t].auth))
          => /\ UNCHANGED <<state, lsState>>
             /\ last'.emitted = <<>>]_vars

\* C6: a guard that runs on an unauthenticated session sends the browser to
\* the login view with the requested path attached, returns false, and the
\* page or route handler behind it does not run.
C6_AnonymousIsRedirected ==
    [][ /\ \A r \in GuardRoles, pg \in GuardedPages :
             ( /\ ~AuthFlag(state[MainTab].auth)
               /\ \/ Guard(MainTab, r, pg)
                  \/ GuardPage(MainTab, r, pg)
                  \/ CallAppGuardPage(MainTab, r, pg) )
             => /\ last'.href = [path |-> LoginPage, next |-> pg]
                /\ last'.res = "false"
                /\ ~last'.ran
        /\ \A p \in DOMAIN Routes :
             ( /\ ~AuthFlag(state[MainTab].auth)
               /\ Routes[p].requiresAuth
               /\ Navigate(MainTab, p) )
             => /\ last'.href = [path |-> "/login", next |-> p]
                /\ ~last'.ran ]_vars

\* C7: a guard asked for a role, or a route that lists roles, other than
\* the role of the authenticated session user redirects, returns false where
\* it returns anything, and the handler behind it does not run.
C7_WrongRoleIsRedirected ==
    [][ /\ \A r \in GuardRoles \ {Null}, pg \in GuardedPages :
             ( /\ AuthFlag(state[MainTab].auth)
               /\ state[MainTab].auth.user.role # r
               /\ \/ Guard(MainTab, r, pg)
                  \/ GuardPage(MainTab, r, pg)
                  \/ CallAppGuardPage(MainTab, r, pg) )
             => /\ last'.href.path # Null
                /\ last'.res = "false"
                /\ ~last'.ran
        /\ \A p \in DOMAIN Routes :
             ( /\ AuthFlag(state[MainTab].auth)
               /\ Routes[p].roles # {}
               /\ state[MainTab].auth.user.role \notin Routes[p].roles
               /\ Navigate(MainTab, p) )
             => /\ last'.href.path # p
                /\ ~last'.ran ]_vars

\* C8: on an authenticated session whose user has the role asked for, or
\* when no role is asked for, the guard returns true and redirects nowhere,
\* and the handler behind it runs.
C8_AuthorisedPasses ==
    [][ /\ \A r \in GuardRoles, pg \in GuardedPages :
             ( /\ AuthFlag(state[MainTab].auth)
               /\ (r = Null \/ state[MainTab].auth.user.role = r)
               /\ \/ Guard(MainTab, r, pg)
                  \/ GuardPage(MainTab, r, pg)
                  \/ CallAppGuardPage(MainTab, r, pg) )
             => /\ last'.res = "true"
                /\ last'.href = Here(Null)
                /\ last'.ran
        /\ \A p \in DOMAIN Routes :
             ( /\ AuthFlag(state[MainTab].auth)
               /\ (Routes[p].roles = {}
                   \/ state[MainTab].auth.user.role \in Routes[p].roles)
               /\ Navigate(MainTab, p) )
             => /\ last'.href.path = p
                /\ last'.ran ]_vars

\* The stored blob holds the logged-out session: the last write to it was
\* a logout.
BlobLoggedOut == lsState # NoItem /\ JSONparse(lsState).auth = DefaultAuth

\* The blob is the logged-out one and every tab has processed every storage
\* notification.
LogoutDelivered == BlobLoggedOut /\ \A t \in Tabs : pendingStorage[t] = {}

\* C9: when a tab processes the storage notification of another tab's
\* logout it becomes logged out too, its session the unauthenticated
\* default; and once the notifications are delivered a guard run in any tab
\* redirects to login.
C9_LogoutReachesOtherTabs ==
    [][\A b \in Tabs :
        /\ ( /\ BlobLoggedOut
             /\ \E ev \in pendingStorage[b] :
                   ev.key = "replink_state_v1" /\ StorageEvent(b, ev) )
           => state'[b].auth = DefaultAuth
        /\ \A r \in GuardRoles, pg \in GuardedPages :
             (LogoutDelivered /\ Guard(b, r, pg))
             => (last'.res = "false" /\ last'.href.path = LoginPage)
      ]_vars

\* C10: whenever Auth.login, Auth.register or Auth.verifyToken has written a
\* session that has an expiry time, whatever time remains, the expiry timer
\* of that tab is armed, so that it fires; and when it fires the session is
\* the unauthenticated default and the expiry notice was shown once.
C10_ExpiryTimerFires ==
    [][\A t \in Tabs :
        /\ ( /\ last'.tab = t
             /\ last'.op \in {"Auth.login", "Auth.register", "Auth.verifyToken",
                              "visibilitychange"}
             /\ last'.res \in {"ok", "true"}
             /\ lsExpires' # NoExpiry )
           => sessionTimeout'[t].live
        /\ TimerFire(t)
           => /\ state'[t].auth = DefaultAuth
              /\ Len(SelectSeq(last'.emitted, LAMBDA n : n = "toast:expired")) = 1
      ]_vars

\* The properties of a user record that hold a password.
SecretFields == {"password", "__pw"}

\* C14: the user a successful login returns, and the login form then keeps
\* as the session user, has no password property, whether the record came
\* from the fixture or from the fallback accounts.
C14_LoginReturnsNoPassword ==
    [][\A e \in EmailInputs, p \in PasswordInputs, k \in Tokens :
        /\ \A us \in UserCollections :
              (last'.res = "ok" /\ FormLogin(MainTab, e, p, us))
              => /\ ApiLogin(us, Trim(e), p).user = state'[MainTab].auth.user
                 /\ DOMAIN state'[MainTab].auth.user \cap SecretFields = {}
        /\ (last'.res = "ok" /\ AuthLogin(MainTab, e, p, k, FALSE))
           => DOMAIN state'[MainTab].auth.user \cap SecretFields = {}
      ]_vars

\* The login form has logged the fixture's business user in.
C14_Witness ==
    /\ last.op = "form.login"
    /\ last.res = "ok"
    /\ state[MainTab].auth.user = SafeUser(FixtureUsers[2])
    /\ "password" \in DOMAIN FixtureUsers[2]

\* n: trim, then lower-case.
Normalized(e) == ToLowerCase(Trim(e))

\* What a login call left behind: its result and, when it succeeded, the
\* session user.
LoginOutcome(t) ==
    [res |-> last.res,
     user |-> IF last.res = "ok" THEN state[t].auth.user ELSE NullUser]

\* The outcome of the login form for an email, a password and a collection.
FormOutcome(us, e, p) ==
    IF Trim(e) = <<>> \/ Len(p) < MinPasswordLen
    THEN [res |-> "Enter a valid email and password.", user |-> NullUser]
    ELSE LET r == ApiLogin(us, Trim(e), p)
         IN  [res |-> IF r.ok THEN "ok" ELSE r.error, user |-> r.user]

\* The outcome of Auth.login, which API.mockLogin decides.
MockLoginOutcome(e, p) ==
    IF e # <<>> /\ p # <<>>
    THEN [res |-> "ok", user |-> MockLoginUser(e)]
    ELSE [res |-> "Invalid credentials", user |-> NullUser]

\* C15: a login with email e and password p ends as the login with the
\* trimmed, lower-cased e and the same p would: the same user or the same
\* error.
C15_LoginNormalizesEmail ==
    [][\A e \in EmailInputs, p \in PasswordInputs, k \in Tokens :
        /\ \A us \in UserCollections :
              FormLogin(MainTab, e, p, us)
              => LoginOutcome(MainTab)' = FormOutcome(us, Normalized(e), p)
        /\ AuthLogin(MainTab, e, p, k, FALSE)
           => LoginOutcome(MainTab)' = MockLoginOutcome(Normalized(e), p)
      ]_vars

\* C11: get(path) called in a tab right after set(path, s) in that tab
\* returns exactly s, for the auth slot and any other, in the Store and in
\* the Map-based Store alike.
C11_GetReturnsWhatSetWrote ==
    [][\A path \in Slots : \A s \in SlotValues(path) :
        /\ \A t \in Tabs : StoreSet(t, path, s) => StoreGet(t, path)' = s
        /\ LegacyGet(LegacyAssign(legacy.data, path, s), path) = s
      ]_vars

\* set has written the messages slot and then, to the auth slot, a value
\* that is no well-formed session; get returns both.
C11_Witness ==
    /\ last.op = "Store.set"
    /\ header[MainTab] = renderHeader(FormSession(NullUser))
    /\ StoreGetAuth(MainTab) = [isAuthed |-> TRUE, user |-> NullUser, token |-> "dev"]
    /\ StoreGet(MainTab, "messages") = <<"m1">>

\* C12: right after a set(slot, value) returns, the blob in localStorage
\* parses to the whole in-memory state of the Store that was written, so a
\* Store constructed afterwards reads the value just written.
C12_SetPersistsWholeState ==
    [][\A path \in Slots : \A v \in SlotValues(path) :
        /\ \A t \in Tabs :
              StoreSet(t, path, v)
              => /\ Parses(lsState')
                 /\ JSONparse(lsState') = state'[t]
                 /\ StoreConstruct(lsState')[path] = v
        /\ LegacySet(path, v)
           => /\ lsLegacy' # NoItem
              /\ Parses(lsLegacy')
              /\ JSONparse(lsLegacy') = legacy'.data
              /\ LegacyLoaded(NoData, lsLegacy')[path] = v
      ]_vars

\* C13: a page load that finds a text that is not JSON under the Store's
\* key throws nothing to its caller, and get('auth') then returns the
\* unauthenticated default.
C13_MalformedBlobIsAbsence ==
    [][\A t \in Tabs :
        (lsState = Malformed /\ Reload(t))
        => /\ last'.res # NoStore.threw
           /\ Loaded(t)'
           /\ StoreGetAuth(t)' = DefaultAuth
      ]_vars

\* C16: whenever a step changes a tab's auth slot, that tab's header is the
\* rendering of the new session: Dashboard and Logout and no Log in when the
\* new session is authenticated, Log in and no Logout when it is not.
C16_HeaderFollowsSession ==
    [][\A t \in Tabs :
          (Loaded(t) /\ Loaded(t)' /\ state'[t].auth # state[t].auth) =>
             IF AuthFlag(state'[t].auth)
             THEN /\ {"Dashboard", "Logout"} \subseteq header'[t]
                  /\ "Log in" \notin header'[t]
             ELSE /\ "Log in" \in header'[t]
                  /\ "Logout" \notin header'[t] ]_vars

\* C17: a back or forward navigation that lands on a route requiring
\* authentication while the session is not authenticated is redirected to
\* login, and the route's handler is not invoked.
C17_BackNavigationIsGuarded ==
    [][\A d \in {-1, 1} :
          ( /\ PopState(MainTab, d)
            /\ ~AuthFlag(state[MainTab].auth)
            /\ LET p == router.entries[router.idx + d].path
               IN  p \in DOMAIN Routes /\ Routes[p].requiresAuth )
          => /\ ~last'.ran
             /\ last'.href.path = "/login" ]_vars

\* The routes a dispatch hands to their handler whoever asks: registered,
\* open to anonymous visitors and to every role.
OpenRoutes ==
    {p \in DOMAIN Routes : ~Routes[p].requiresAuth /\ Routes[p].roles = {}}

Callbacks(subs) == [i \in DOMAIN subs |-> subs[i].cb]

\* C19 as stated: emit invokes the callbacks subscribed when it is called,
\* each once, in the order of their on calls.
C19_EmitInSubscriptionOrder ==
    [][Emit =>
          /\ last'.emitted = Callbacks(events)
          /\ \A i, j \in DOMAIN events : i < j => events[i].n < events[j].n ]_vars

\* C19, amended: emit invokes the callbacks subscribed when it is called,
\* each once, higher priority first and, among subscriptions of equal
\* priority, in the order of their on calls.
C19_EmitInPriorityThenSubscriptionOrder ==
    [][Emit =>
          /\ last'.emitted = Callbacks(events)
          /\ \A i, j \in DOMAIN events : i < j =>
                \/ events[i].priority > events[j].priority
                \/ /\ events[i].priority = events[j].priority
                   /\ events[i].n < events[j].n ]_vars

\* An emit has run three handlers: the first subscribed later than the
\* second but with a higher priority, the last two of equal priority.
C19_Witness ==
    /\ last.op = "emit" /\ Len(last.emitted) = 3
    /\ Len(events) = 3 /\ last.emitted = Callbacks(events)
    /\ events[1].n > events[2].n /\ events[1].priority > events[2].priority
    /\ events[2].priority = events[3].priority

\* The sequences of at most MaxSubs callbacks.
CallbackLists == UNION {[1..k -> Handlers] : k \in 0..MaxSubs}

\* C20: an emit with a throwing handler among the subscriptions returns
\* without throwing and has invoked every subscribed handler; the same for
\* the loop over callbacks the Map-based Store's emit runs.
C20_ThrowingHandlerIsIsolated ==
    [][/\ Emit =>
             /\ last'.res # "threw"
             /\ Len(last'.emitted) = Len(events)
             /\ \A i \in DOMAIN events : last'.emitted[i] = events[i].cb
       /\ \A cbs \in CallbackLists :
             /\ ~Dispatch(cbs).threw
             /\ Dispatch(cbs).invoked = cbs ]_vars

\* An emit has invoked a throwing handler and, after it, another handler.
C20_Witness ==
    /\ last.op = "emit" /\ last.res = Null
    /\ \E i, j \in DOMAIN last.emitted :
          i < j /\ last.emitted[i] \in Throwing /\ last.emitted[j] \notin Throwing

\* C21: an expiry timer that fires while a session is open was armed for
\* that session: the session carries the token under auth-token, and the
\* timer was set for the time under session-expires.
C21_TimerBelongsToSession ==
    [][\A t \in Tabs :
          (TimerFire(t) /\ AuthFlag(state[t].auth)) =>
             /\ state[t].auth.token = lsToken
             /\ sessionTimeout[t].at = lsExpires ]_vars

\* C22: wherever a guard sends the browser, the chain of redirects ends
\* there: the page is one without a guard or one whose guard accepts the
\* session; and a dispatch of the Router redirects at most once.
C22_RedirectsTerminate ==
    /\ \A t \in Tabs, role \in GuardRoles, page \in DOMAIN PageRole :
          LET a == StoreGetAuth(t)
              target == guard(a, role, page).href.path
          IN  target \in DOMAIN PageRole =>
                 guard(a, PageRole[target], target).res = "true"
    /\ \A p \in RouterPaths : Len(handleRoute(p, Null).pushed) <= 1

\* C23: while main shows what the handler of the current route rendered, a
\* response arriving for a page fetch that an earlier dispatch started
\* leaves that view as it is.
C23_LateResponseIsDropped ==
    [][\A pg \in {"/404", "/error"}, ok \in BOOLEAN :
          ( /\ FetchResolves(MainTab, pg, ok)
            /\ router.view = router.entries[router.idx].path )
          => router'.view = router.view ]_vars

\* C30: App.init dispatches the initial route no further time after the
\* Router's constructor did, and after App.init a back/forward event is
\* dispatched once, for the path it lands on.
C30_OneDispatchPerEvent ==
    [][/\ AppInit(MainTab) => last'.emitted = <<>>
       /\ \A d \in {-1, 1} :
             (PopState(MainTab, d) /\ router.listeners > 1) =>
                last'.emitted = <<router.entries[router.idx + d].path>> ]_vars

\* C24: a step that leaves a tab's session open and is none of the calls
\* that open a session leaves the role of the session's user as it was.
C24_RoleIsImmutable ==
    [][\A t \in Tabs :
          ( /\ AuthFlag(state[t].auth) /\ AuthFlag(state'[t].auth)
            /\ state[t].auth.user # NullUser /\ state'[t].auth.user # NullUser
            /\ last'.op \notin {"Auth.login", "Auth.register", "form.login",
                                "signup"} )
          => state'[t].auth.user.role = state[t].auth.user.role ]_vars

\* C25: a set of a slot other than auth, in whichever tab, leaves the auth
\* value of the durable blob as it was.
C25_CacheWriteKeepsDurableAuth ==
    [][\A t \in Tabs, v \in SlotValues("messages") :
          (StoreSet(t, "messages", v) /\ Parses(lsState))
          => JSONparse(lsState').auth = JSONparse(lsState).auth ]_vars

\* C26: after Store.clear, get('auth') returns the unauthenticated default.
C26_ClearRestoresDefault ==
    [][\A t \in Tabs : StoreClear(t) => StoreGetAuth(t)' = DefaultAuth]_vars

\* C27: between calls, in every tab, Auth.isAuthenticated is the isAuthed
\* flag the guards and the header read in the Store's auth slot, and when
\* it is set Auth.currentUser is the user of that slot.
C27_AuthAgreesWithStore ==
    \A t \in Tabs :
        /\ isAuthenticated[t] = Truthy(StoreGetAuth(t), "isAuthed")
        /\ isAuthenticated[t] => currentUser[t] = StoreGetAuth(t).user

\* C28: after a call that opened a session (the login form, Auth.login,
\* Auth.register, the signup), the session user in the Store's auth slot,
\* and in the durable blob, has neither a password nor a __pw property.
C28_SessionUserHasNoPassword ==
    [][( /\ last'.op \in {"form.login", "Auth.login", "Auth.register", "signup"}
         /\ last'.res = "ok"
         /\ last' # last )
       => /\ DOMAIN state'[last'.tab].auth.user \cap SecretFields = {}
          /\ DOMAIN JSONparse(lsState').auth.user \cap SecretFields = {} ]_vars

\* C29: an emit, which invokes every subscription, leaves subscribed
\* exactly the subscriptions not made with once: each one-time subscription
\* is consumed by the emit that fired it, and no other subscription is
\* removed with it.
C29_OnceFiresOnce ==
    [][Emit =>
          {events'[i].n : i \in DOMAIN events'}
            = {events[i].n : i \in {j \in DOMAIN events : ~events[j].once}} ]_vars

====
